---------------------------- MODULE Spec2Model ----------------------------
(***************************************************************************)
(* A model of the multi-intent query resolution engine of                  *)
(* src/ml_intent_classifier.py (class ProductionIntentClassifier):         *)
(* entity extraction, hybrid intent detection, conflict resolution and     *)
(* tool-call planning.  An utterance is a string; the functions that scan  *)
(* it work on its tuple of characters, and the regular expressions and     *)
(* substring tests of the source are computed character by character.      *)
(* The trained classifier is an input: a probability per class.            *)
(***************************************************************************)
EXTENDS Integers, Sequences, FiniteSets, TLC

VARIABLES
    hashseed,          \* the interpreter's string-hash seed of this process
    query,             \* user_message of the request
    proba,             \* classifier.predict_proba(X)[0], in hundredths, per class
    pc,                \* "ready": request received; "done": process_query
                       \* returned; "raised": process_query raised
    vectorizer,        \* self.vectorizer: "unset" (None), "unfitted" or "fitted"
    classifier,        \* self.classifier: "unset" (None), "unfitted" or "fitted"
    predicted,         \* predict_intents: the classifier's decision
    keyword_matched,   \* predict_intents: trigger and keyword matches
    trigger_matched,   \* the part of keyword_matched found by the trigger scan
    combined,          \* predict_intents: merged list handed to the resolver
    resolved,          \* _resolve_intent_conflicts' result
    detected_intents,  \* process_query: predict_intents' result (truncated)
    entities,          \* process_query: extract_entities' result
    tool_calls,        \* process_query: planned calls
    prev,              \* result of the previous call on the same utterance
    restarts,          \* number of process restarts so far
    inflight,          \* concurrent process_query calls: argument and position
    frames,            \* the local variables of the calls in progress
    installed,         \* self.vectorizer, self.classifier, self.mlb: which
                       \* train()/load_model() each comes from, and its state
    loader,            \* position of the train() or load_model() in progress
    service,           \* LocalMLService.process_query: position and analysis
    mcp_results        \* LocalMLService.process_query: mcp_results

vars == <<hashseed, query, proba, pc, vectorizer, classifier, predicted,
          keyword_matched, trigger_matched, combined, resolved,
          detected_intents, entities, tool_calls, prev, restarts,
          inflight, frames, installed, loader, service, mcp_results>>

\* the variables of one request at a time on one classifier object
single == <<hashseed, query, proba, pc, vectorizer, classifier, predicted,
            keyword_matched, trigger_matched, combined, resolved,
            detected_intents, entities, tool_calls, prev, restarts>>

\* the variables of concurrent requests, of reloading and of the service
concurrent == <<inflight, frames>>
reloading == <<installed, loader>>
executing == <<service, mcp_results>>

-----------------------------------------------------------------------------
(* Characters and strings *)

Digits == {"0", "1", "2", "3", "4", "5", "6", "7", "8", "9"}

UpperLetters == {"A", "B", "C", "D", "E", "F", "G", "H", "I", "J", "K", "L", "M",
                 "N", "O", "P", "Q", "R", "S", "T", "U", "V", "W", "X", "Y", "Z"}

LowerLetters == {"a", "b", "c", "d", "e", "f", "g", "h", "i", "j", "k", "l", "m",
                 "n", "o", "p", "q", "r", "s", "t", "u", "v", "w", "x", "y", "z"}

RECURSIVE CharsFrom(_, _)
CharsFrom(str, i) ==
    IF i > Len(str) THEN <<>> ELSE <<SubSeq(str, i, i)>> \o CharsFrom(str, i + 1)

\* the characters of a string, as a tuple
Chars(str) == CharsFrom(str, 1)

\* the tuples of characters of a list of strings
CharsOfAll(strs) == [n \in 1..Len(strs) |-> Chars(strs[n])]

RECURSIVE Str(_)
\* the string of a tuple of characters
Str(s) == IF s = <<>> THEN "" ELSE Head(s) \o Str(Tail(s))

\* the character at position i of s ("" outside s)
At(s, i) == IF i >= 1 /\ i <= Len(s) THEN s[i] ELSE ""

IsDigit(c) == c \in Digits
IsUpper(c) == c \in UpperLetters
IsLower(c) == c \in LowerLetters
\* \w
IsWord(c) == c \in Digits \/ c \in UpperLetters \/ c \in LowerLetters \/ c = "_"
\* \s
IsSpace(c) == c = " "

LowerChar(c) ==
    CASE c = "A" -> "a" [] c = "B" -> "b" [] c = "C" -> "c" [] c = "D" -> "d"
      [] c = "E" -> "e" [] c = "F" -> "f" [] c = "G" -> "g" [] c = "H" -> "h"
      [] c = "I" -> "i" [] c = "J" -> "j" [] c = "K" -> "k" [] c = "L" -> "l"
      [] c = "M" -> "m" [] c = "N" -> "n" [] c = "O" -> "o" [] c = "P" -> "p"
      [] c = "Q" -> "q" [] c = "R" -> "r" [] c = "S" -> "s" [] c = "T" -> "t"
      [] c = "U" -> "u" [] c = "V" -> "v" [] c = "W" -> "w" [] c = "X" -> "x"
      [] c = "Y" -> "y" [] c = "Z" -> "z" [] OTHER -> c

\* str.lower()
Lower(s) == [i \in 1..Len(s) |-> LowerChar(s[i])]

\* s[i:].startswith(k)
StartsAt(s, i, k) ==
    i + Len(k) - 1 <= Len(s) /\ \A j \in 1..Len(k) : s[i + j - 1] = k[j]

\* Python's  k in s
Contains(s, k) == \E i \in 1..(Len(s) - Len(k) + 1) : StartsAt(s, i, k)

\* any(sig in s for sig in sigs)
ContainsAny(s, sigs) == \E n \in 1..Len(sigs) : Contains(s, sigs[n])

RECURSIVE ReplaceFrom(_, _, _)
ReplaceFrom(s, i, old) ==
    IF i > Len(s) THEN <<>>
    ELSE IF StartsAt(s, i, old) THEN ReplaceFrom(s, i + Len(old), old)
    ELSE <<s[i]>> \o ReplaceFrom(s, i + 1, old)

\* s.replace(old, ""), old non-empty
Remove(s, old) == ReplaceFrom(s, 1, old)

RECURSIVE CountWordsFrom(_, _)
CountWordsFrom(s, i) ==
    IF i > Len(s) THEN 0
    ELSE (IF ~IsSpace(At(s, i)) /\ (i = 1 \/ IsSpace(At(s, i - 1))) THEN 1 ELSE 0)
         + CountWordsFrom(s, i + 1)

\* len(s.split())
WordCount(s) == CountWordsFrom(s, 1)

\* the end (exclusive) of the longest run of digits starting at i
RECURSIVE DigitsEnd(_, _)
DigitsEnd(s, i) == IF IsDigit(At(s, i)) THEN DigitsEnd(s, i + 1) ELSE i

\* the end (exclusive) of the longest run of lower-case letters starting at i
RECURSIVE LowersEnd(_, _)
LowersEnd(s, i) == IF IsLower(At(s, i)) THEN LowersEnd(s, i + 1) ELSE i

\* the end (exclusive) of the longest run of white space starting at i
RECURSIVE SpacesEnd(_, _)
SpacesEnd(s, i) == IF IsSpace(At(s, i)) THEN SpacesEnd(s, i + 1) ELSE i

\* the end (exclusive) of the longest run of word characters starting at i
RECURSIVE WordEnd(_, _)
WordEnd(s, i) == IF IsWord(At(s, i)) THEN WordEnd(s, i + 1) ELSE i

\* \b between positions i-1 and i
Boundary(s, i) == IsWord(At(s, i - 1)) # IsWord(At(s, i))

-----------------------------------------------------------------------------
(* Numbers: a Python float is the pair of its whole part and its fraction   *)
(* digits without trailing zeros, so that equal floats are equal records.   *)

DigitVal(c) ==
    CASE c = "0" -> 0 [] c = "1" -> 1 [] c = "2" -> 2 [] c = "3" -> 3
      [] c = "4" -> 4 [] c = "5" -> 5 [] c = "6" -> 6 [] c = "7" -> 7
      [] c = "8" -> 8 [] c = "9" -> 9

RECURSIVE IntOf(_, _)
\* int() of the digits of s[1..n]
IntOf(s, n) == IF n = 0 THEN 0 ELSE 10 * IntOf(s, n - 1) + DigitVal(At(s, n))

RECURSIVE StripZeros(_)
StripZeros(s) ==
    IF Len(s) > 0 /\ At(s, Len(s)) = "0" THEN StripZeros(SubSeq(s, 1, Len(s) - 1))
    ELSE s

\* the float of the integer n
F(n) == [w |-> n, f |-> ""]

\* float(a) for digits with an optional fraction
ToFloat(a) ==
    LET d == DigitsEnd(a, 1)
    IN  [w |-> IntOf(a, d - 1), f |-> Str(StripZeros(SubSeq(a, d + 1, Len(a))))]

\* bool(x) of a float
Truthy(x) == ~(x.w = 0 /\ x.f = "")

\* None in a slot that otherwise holds a string
None == "<None>"

-----------------------------------------------------------------------------
(* Entity patterns *)

\* [A-Z], under re.IGNORECASE when ic
UpperIC(c, ic) == IsUpper(c) \/ (ic /\ IsLower(c))

\* the gstin pattern matches s at i (its 15 characters are s[i..i+14])
GstinAt(s, i, ic) ==
    /\ i + 14 <= Len(s)
    /\ Boundary(s, i)
    /\ \A k \in 0..1 : IsDigit(At(s, i + k))
    /\ \A k \in 2..6 : UpperIC(At(s, i + k), ic)
    /\ \A k \in 7..10 : IsDigit(At(s, i + k))
    /\ UpperIC(At(s, i + 11), ic)
    /\ (UpperIC(At(s, i + 12), ic) \/ IsDigit(At(s, i + 12)))
    /\ (At(s, i + 13) = "Z" \/ (ic /\ At(s, i + 13) = "z"))
    /\ (UpperIC(At(s, i + 14), ic) \/ IsDigit(At(s, i + 14)))
    /\ Boundary(s, i + 15)

\* re.search(gstin, s): the start of the first match, 0 when there is none
GstinSearch(s) ==
    LET hits == {i \in 1..Len(s) : GstinAt(s, i, FALSE)}
    IN  IF hits = {} THEN 0 ELSE CHOOSE i \in hits : \A j \in hits : i <= j

RECURSIVE GstinSubFrom(_, _)
GstinSubFrom(s, i) ==
    IF i > Len(s) THEN <<>>
    ELSE IF GstinAt(s, i, TRUE) THEN GstinSubFrom(s, i + 15)
    ELSE <<s[i]>> \o GstinSubFrom(s, i + 1)

\* re.sub(gstin, "", s, flags=re.IGNORECASE)
GstinSub(s) == GstinSubFrom(s, 1)

\* the end (exclusive) of (\d+(?:\.\d+)?) at i, where s[i] is a digit
NumberEnd(s, i) ==
    LET j == DigitsEnd(s, i)
    IN  IF At(s, j) = "." /\ IsDigit(At(s, j + 1)) THEN DigitsEnd(s, j + 1) ELSE j

percent == Chars("percent")

\* (\d+(?:\.\d+)?)\s*(?:%|percent) at i: <<end of the number, end of the match>>,
\* <<0, 0>> when it does not match at i
PercentAt(s, i) ==
    IF ~IsDigit(At(s, i)) THEN <<0, 0>>
    ELSE LET k == NumberEnd(s, i)
             m == SpacesEnd(s, k)
         IN  IF At(s, m) = "%" THEN <<k, m + 1>>
             ELSE IF StartsAt(s, m, percent) THEN <<k, m + 7>>
             ELSE <<0, 0>>

RECURSIVE PercentFindallFrom(_, _)
PercentFindallFrom(s, i) ==
    IF i > Len(s) THEN <<>>
    ELSE LET r == PercentAt(s, i)
         IN  IF r[2] = 0 THEN PercentFindallFrom(s, i + 1)
             ELSE <<SubSeq(s, i, r[1] - 1)>> \o PercentFindallFrom(s, r[2])

\* re.findall(percentage, s): the captured numbers, in order
PercentFindall(s) == PercentFindallFrom(s, 1)

RECURSIVE RemovePercents(_, _)
\* for match in percent_matches: replace "<match>%" and "<match> percent" by ""
RemovePercents(s, matches) ==
    IF matches = <<>> THEN s
    ELSE RemovePercents(Remove(Remove(s, Head(matches) \o <<"%">>),
                               Head(matches) \o <<" ">> \o percent),
                        Tail(matches))

RECURSIVE CommaGroupsEnd(_, _)
\* the end (exclusive) of (?:,\d{3})* at i
CommaGroupsEnd(s, i) ==
    IF At(s, i) = "," /\ \A k \in 1..3 : IsDigit(At(s, i + k))
    THEN CommaGroupsEnd(s, i + 4) ELSE i

\* the end (exclusive) of (\d+(?:,\d{3})*(?:\.\d+)?) at i, where s[i] is a digit
AmountEnd(s, i) ==
    LET j == CommaGroupsEnd(s, DigitsEnd(s, i))
    IN  IF At(s, j) = "." /\ IsDigit(At(s, j + 1)) THEN DigitsEnd(s, j + 1) ELSE j

RECURSIVE AmountFindallFrom(_, _)
\* the optional currency marker and \s* only move the start of a match: the
\* captured group starts at the first digit at or after i
AmountFindallFrom(s, i) ==
    IF i > Len(s) THEN <<>>
    ELSE IF ~IsDigit(At(s, i)) THEN AmountFindallFrom(s, i + 1)
    ELSE LET e == AmountEnd(s, i)
         IN  <<SubSeq(s, i, e - 1)>> \o AmountFindallFrom(s, e)

\* re.findall(amount, s): the captured numbers, in order
AmountFindall(s) == AmountFindallFrom(s, 1)

\* [float(x) for x in matches]
\* the floats of the matches, last match first
FloatsReversed(matches) ==
    [n \in 1..Len(matches) |-> ToFloat(matches[Len(matches) + 1 - n])]

Floats(matches) == [n \in 1..Len(matches) |-> ToFloat(matches[n])]

\* [float(a.replace(",", "")) for a in matches]
AmountFloats(matches) == [n \in 1..Len(matches) |-> ToFloat(Remove(matches[n], <<",">>))]

\* <word>\s+([A-Z][a-z]+(?:\s+[A-Z][a-z]+)?) at i: <<start, end>> of the group,
\* <<0, 0>> when it does not match at i
CityAt(s, i, word) ==
    LET m == SpacesEnd(s, i + Len(word))
        e == LowersEnd(s, m + 1)
        n == SpacesEnd(s, e)
    IN  IF StartsAt(s, i, word) /\ m > i + Len(word) /\ IsUpper(At(s, m))
           /\ IsLower(At(s, m + 1))
        THEN IF n > e /\ IsUpper(At(s, n)) /\ IsLower(At(s, n + 1))
             THEN <<m, LowersEnd(s, n + 1)>>
             ELSE <<m, e>>
        ELSE <<0, 0>>

\* re.search of the city pattern after word: the captured city, "" when none
CitySearch(s, word) ==
    LET hits == {i \in 1..Len(s) : CityAt(s, i, word)[1] # 0}
    IN  IF hits = {} THEN ""
        ELSE LET i == CHOOSE i \in hits : \A j \in hits : i <= j
                 r == CityAt(s, i, word)
             IN  Str(SubSeq(s, r[1], r[2] - 1))

\* (\d{4}-\d{2}-\d{2}) matches s at i
DateAt(s, i) ==
    /\ \A k \in 0..3 : IsDigit(At(s, i + k))
    /\ At(s, i + 4) = "-"
    /\ \A k \in 5..6 : IsDigit(At(s, i + k))
    /\ At(s, i + 7) = "-"
    /\ \A k \in 8..9 : IsDigit(At(s, i + k))

DateSearch(s) ==
    LET hits == {i \in 1..Len(s) : DateAt(s, i)}
    IN  IF hits = {} THEN ""
        ELSE LET i == CHOOSE i \in hits : \A j \in hits : i <= j
             IN  Str(SubSeq(s, i, i + 9))

\* \b(TIN\w+)\b under re.IGNORECASE matches s at i
TinAt(s, i) ==
    /\ Boundary(s, i)
    /\ i + 2 <= Len(s)
    /\ Lower(SubSeq(s, i, i + 2)) = <<"t", "i", "n">>
    /\ IsWord(At(s, i + 3))

TinSearch(s) ==
    LET hits == {i \in 1..Len(s) : TinAt(s, i)}
    IN  IF hits = {} THEN ""
        ELSE LET i == CHOOSE i \in hits : \A j \in hits : i <= j
             IN  Str(SubSeq(s, i, WordEnd(s, i + 3) - 1))

\* a dict entry, and the empty dict
Entry(k, v) == k :> v
Empty == <<>>

\* the markers of the state-locality flag
inter == Chars("inter")
interstate == Chars("interstate")
intra == Chars("intra")
intrastate == Chars("intrastate")

\* extract_entities on the characters q of the query
ExtractFrom(q) ==
    LET g == GstinSearch(q)
        c1 == IF g # 0 THEN GstinSub(Lower(q)) ELSE Lower(q)
        pm == PercentFindall(c1)
        c2 == RemovePercents(c1, pm)
        am == AmountFindall(c2)
        amounts == AmountFloats(am)
        ql == Lower(q)
        src == CitySearch(q, Chars("from"))
        dst == CitySearch(q, Chars("to"))
        date == DateSearch(q)
        tin == TinSearch(q)
    IN  (IF g # 0 THEN Entry("gstin", Str(SubSeq(q, g, g + 14))) ELSE Empty)
        @@ (IF pm # <<>>
            THEN Entry("gst_rates", Floats(pm)) @@ Entry("gst_rate", ToFloat(pm[1]))
            ELSE Entry("gst_rates", <<F(18)>>) @@ Entry("gst_rate", F(18)))
        @@ (IF am # <<>>
            THEN Entry("amounts", amounts) @@ Entry("base_amount", amounts[1])
                 @@ Entry("amount", amounts[1])
                 @@ (IF Len(amounts) > 1 THEN Entry("total_amount", amounts[2])
                     ELSE Empty)
            ELSE Empty)
        @@ (IF Contains(ql, inter) \/ Contains(ql, interstate)
            THEN Entry("is_intra_state", FALSE)
            ELSE IF Contains(ql, intra) \/ Contains(ql, intrastate)
            THEN Entry("is_intra_state", TRUE)
            ELSE Empty)
        @@ (IF src # "" THEN Entry("source_city", src) ELSE Empty)
        @@ (IF dst # "" THEN Entry("destination_city", dst) ELSE Empty)
        @@ (IF date # "" THEN Entry("travel_date", date) ELSE Empty)
        @@ (IF tin # "" THEN Entry("tin", tin) ELSE Empty)

\* extract_entities(query)
ExtractEntities(query_str) == ExtractFrom(Chars(query_str))

-----------------------------------------------------------------------------
(* The intent lexicon *)

\* the keys of intent_mappings, in insertion order
IntentNames ==
    <<"calculate_gst", "reverse_gst", "gst_breakdown", "compare_rates",
      "validate_gstin", "company_guide", "company_documents", "company_field",
      "company_process", "bank_guide", "vendor_guide", "redbus_search",
      "redbus_booking", "redbus_offers", "redbus_tracking", "redbus_routes",
      "redbus_open">>

\* intent_mappings[intent]["tool"]
Tool(intent) ==
    CASE intent = "calculate_gst" ->
          "calculate_gst"
      [] intent = "reverse_gst" ->
          "reverse_calculate_gst"
      [] intent = "gst_breakdown" ->
          "gst_breakdown"
      [] intent = "compare_rates" ->
          "compare_gst_rates"
      [] intent = "validate_gstin" ->
          "validate_gstin"
      [] intent = "company_guide" ->
          "get_company_onboarding_guide"
      [] intent = "company_documents" ->
          "get_company_required_documents"
      [] intent = "company_field" ->
          "get_validation_formats"
      [] intent = "company_process" ->
          "get_onboarding_faq"
      [] intent = "bank_guide" ->
          "get_bank_onboarding_guide"
      [] intent = "vendor_guide" ->
          "get_vendor_onboarding_guide"
      [] intent = "redbus_search" ->
          "redbus_search_redirect"
      [] intent = "redbus_booking" ->
          "redbus_booking_redirect"
      [] intent = "redbus_offers" ->
          "redbus_offers_redirect"
      [] intent = "redbus_tracking" ->
          "redbus_tracking_redirect"
      [] intent = "redbus_routes" ->
          "get_popular_routes"
      [] intent = "redbus_open" ->
          "open_redbus"

\* intent_mappings[intent]["required_params"]
RequiredParams(intent) ==
    CASE intent = "calculate_gst" ->
          <<"base_amount", "gst_rate">>
      [] intent = "reverse_gst" ->
          <<"total_amount", "gst_rate">>
      [] intent = "gst_breakdown" ->
          <<"base_amount", "gst_rate">>
      [] intent = "compare_rates" ->
          <<"base_amount", "rates">>
      [] intent = "validate_gstin" ->
          <<"gstin">>
      [] intent = "company_guide" ->
          <<>>
      [] intent = "company_documents" ->
          <<>>
      [] intent = "company_field" ->
          <<>>
      [] intent = "company_process" ->
          <<>>
      [] intent = "bank_guide" ->
          <<>>
      [] intent = "vendor_guide" ->
          <<>>
      [] intent = "redbus_search" ->
          <<"source_city", "destination_city">>
      [] intent = "redbus_booking" ->
          <<"tin">>
      [] intent = "redbus_offers" ->
          <<>>
      [] intent = "redbus_tracking" ->
          <<"tin">>
      [] intent = "redbus_routes" ->
          <<>>
      [] intent = "redbus_open" ->
          <<>>

\* intent_mappings[intent]["keywords"]
Keywords(intent) ==
    CASE intent = "calculate_gst" ->
          <<"calculate gst", "add gst", "gst on", "apply gst", "gst for",
              "add tax", "gst amount", "how much gst", "compute gst", "find gst",
              "what is gst", "show gst">>
      [] intent = "reverse_gst" ->
          <<"reverse gst", "remove gst", "exclude gst", "before gst",
              "without gst", "inclusive gst", "gst included", "base price",
              "base amount", "excluding">>
      [] intent = "gst_breakdown" ->
          <<"breakdown", "gst breakdown", "split gst", "cgst", "sgst", "igst",
              "tax split", "show breakdown", "components", "show cgst",
              "show sgst">>
      [] intent = "compare_rates" ->
          <<"compare gst", "compare rates", "which gst rate",
              "difference between", "rate comparison", "compare", "which rate",
              "better rate">>
      [] intent = "validate_gstin" ->
          <<"validate gstin", "check gstin", "gstin valid", "verify gstin",
              "is this gstin valid", "validate", "verify", "check">>
      [] intent = "company_guide" ->
          <<"company onboarding", "register company", "company registration",
              "how to onboard company", "start company", "onboard organization",
              "company setup", "register my company", "register a company",
              "company register", "setting up a company", "set up company">>
      [] intent = "company_documents" ->
          <<"documents needed", "required documents", "company documents",
              "documents for company", "what documents", "document checklist">>
      [] intent = "company_field" ->
          <<"pan number", "gst number", "mandatory fields", "field format",
              "validation format", "format">>
      [] intent = "company_process" ->
          <<"how long", "timeline", "processing time", "approval time",
              "how many days", "duration">>
      [] intent = "bank_guide" ->
          <<"bank onboarding", "register bank", "bank registration",
              "add bank", "supported banks", "bank account", "connect bank">>
      [] intent = "vendor_guide" ->
          <<"vendor", "supplier", "seller", "distributor", "vendor onboarding">>
      [] intent = "redbus_search" ->
          <<"book bus", "search bus", "find bus", "bus from", "buses from",
              "bus tickets", "available buses", "bus timings", "bus schedule",
              "bus seat", "sleeper bus", "AC bus", "overnight bus",
              "plan my journey", "bus to", "travel by bus">>
      [] intent = "redbus_booking" ->
          <<"view booking", "check booking", "my booking", "my ticket",
              "booking details", "ticket details", "booking id", "TIN",
              "manage booking", "reservation", "retrieve booking">>
      [] intent = "redbus_offers" ->
          <<"redbus offers", "bus offers", "bus deals", "redbus discount",
              "promo code", "coupon", "cashback", "cheap bus", "bus sale",
              "redbus coupon", "save money", "redbus deals">>
      [] intent = "redbus_tracking" ->
          <<"track bus", "track my bus", "live location", "bus location",
              "where is my bus", "bus tracking", "real time tracking", "bus ETA",
              "is bus on time", "bus arrived", "current position">>
      [] intent = "redbus_routes" ->
          <<"popular routes", "top routes", "common routes", "best routes",
              "most booked routes", "trending routes", "popular destinations",
              "route list", "where can I go by bus", "cities connected",
              "bus routes", "route suggestions">>
      [] intent = "redbus_open" ->
          <<"open redbus", "launch redbus", "go to redbus", "redbus app",
              "redbus website", "visit redbus", "redbus.in", "start redbus",
              "navigate to redbus", "redbus homepage", "open bus booking">>

\* intent_mappings[intent]["multi_triggers"]
MultiTriggers(intent) ==
    CASE intent = "calculate_gst" ->
          <<"calculate gst", "compute gst", "find gst", "add gst", "gst on">>
      [] intent = "reverse_gst" ->
          <<"reverse gst", "remove gst", "exclude gst", "without gst",
              "base price">>
      [] intent = "gst_breakdown" ->
          <<"gst breakdown", "show breakdown", "split gst", "cgst", "sgst",
              "igst">>
      [] intent = "compare_rates" ->
          <<"compare gst", "compare rates", "rate comparison", "which rate",
              "difference between">>
      [] intent = "validate_gstin" ->
          <<"validate gstin", "verify gstin", "check gstin", "gstin valid">>
      [] intent = "company_guide" ->
          <<"company onboarding", "register company", "company registration",
              "register my company", "register a company", "start company",
              "company setup", "company register", "set up company",
              "registration process">>
      [] intent = "company_documents" ->
          <<"required documents", "document checklist", "what documents",
              "documents needed">>
      [] intent = "company_field" ->
          <<"pan number", "mandatory fields", "field format",
              "validation format">>
      [] intent = "company_process" ->
          <<"processing time", "approval time", "how many days",
              "how long does", "timeline">>
      [] intent = "bank_guide" ->
          <<"bank onboarding", "register bank", "add bank", "supported banks">>
      [] intent = "vendor_guide" ->
          <<"vendor onboarding", "add vendor", "register vendor",
              "supplier onboarding">>
      [] intent = "redbus_search" ->
          <<"book bus", "search bus", "bus from", "find bus", "bus tickets">>
      [] intent = "redbus_booking" ->
          <<"view booking", "check booking", "booking id", "my ticket", "TIN">>
      [] intent = "redbus_offers" ->
          <<"redbus offers", "redbus discount", "promo code", "bus deals",
              "cashback">>
      [] intent = "redbus_tracking" ->
          <<"track bus", "live location", "bus tracking", "where is my bus",
              "bus ETA">>
      [] intent = "redbus_routes" ->
          <<"popular routes", "top routes", "bus routes", "route list",
              "cities connected">>
      [] intent = "redbus_open" ->
          <<"open redbus", "launch redbus", "go to redbus", "redbus app",
              "redbus website">>

\* the keywords and the multi_triggers of every intent, as characters
KeywordChars ==
    [n \in 1..Len(IntentNames) |-> CharsOfAll(Keywords(IntentNames[n]))]
TriggerChars ==
    [n \in 1..Len(IntentNames) |-> CharsOfAll(MultiTriggers(IntentNames[n]))]

\* mlb.classes_: the labels of the training data, sorted
Classes ==
    <<"bank_guide", "calculate_gst", "company_documents", "company_field",
      "company_guide", "company_process", "compare_rates", "gst_breakdown",
      "redbus_booking", "redbus_offers", "redbus_open", "redbus_routes",
      "redbus_search", "redbus_tracking", "reverse_gst", "validate_gstin",
      "vendor_guide">>

-----------------------------------------------------------------------------
(* Lists *)

\* x in xs
In(x, xs) == \E n \in 1..Len(xs) : xs[n] = x

\* [x for x in xs if x not in ys]
Without(xs, ys) == SelectSeq(xs, LAMBDA x : ~In(x, ys))

\* [x for x in xs if x != y]
Drop(xs, y) == SelectSeq(xs, LAMBDA x : x # y)

\* xs[:n]
Take(xs, n) == SubSeq(xs, 1, IF Len(xs) < n THEN Len(xs) ELSE n)

\* the position of the intent in intent_mappings
IntentIndex(intent) == CHOOSE n \in 1..Len(IntentNames) : IntentNames[n] = intent

\* the slot of an intent's name in a hash table under the process's hash seed
HashSlot(intent, seed) == (IntentIndex(intent) * seed) % Len(IntentNames)

RECURSIVE BySlot(_, _, _)
BySlot(xs, seed, slot) ==
    IF slot >= Len(IntentNames) THEN <<>>
    ELSE SelectSeq(IntentNames, LAMBDA x : In(x, xs) /\ HashSlot(x, seed) = slot)
         \o BySlot(xs, seed, slot + 1)

\* list(set(xs)): the members of xs once each, in the set's iteration order,
\* which is the order of their hash slots
ListOfSet(xs, seed) == BySlot(xs, seed, 0)

-----------------------------------------------------------------------------
(* Hybrid intent detection *)

\* a threshold that does not adapt
ThresholdFlat(q) == 35

\* the adaptive threshold of a query (its characters), in hundredths
Threshold(q) ==
    IF WordCount(q) > 15 THEN 25 ELSE IF WordCount(q) > 10 THEN 30 ELSE 35

\* np.argmax(p): the first index of the largest entry
ArgMax(p) ==
    CHOOSE i \in 1..Len(p) :
        /\ \A j \in 1..Len(p) : p[j] <= p[i]
        /\ \A j \in 1..(i - 1) : p[j] < p[i]

\* Step 1 without the fallback to the most probable class
PredictedNoFallback(q, p) ==
    LET threshold == Threshold(q)
    IN  SelectSeq(Classes, LAMBDA c :
            \E i \in 1..Len(Classes) : Classes[i] = c /\ p[i] > threshold)

\* Step 1: the classes above the threshold, else the most probable class
Predicted(q, p) ==
    LET threshold == Threshold(q)
        above == SelectSeq(Classes, LAMBDA c :
                     \E i \in 1..Len(Classes) : Classes[i] = c /\ p[i] > threshold)
    IN  IF above = <<>> THEN <<Classes[ArgMax(p)]>> ELSE above

multi_indicators ==
    CharsOfAll(<<" and ", " also ", " then ", " additionally ", " as well as ",
                 " along with ">>)

\* the trigger scan run on every query
TriggerMatchedAlways(ql) ==
    SelectSeq(IntentNames, LAMBDA i : ContainsAny(ql, TriggerChars[IntentIndex(i)]))

\* Step 2, first loop: the intents one of whose multi_triggers is in the query,
\* scanned only when the query has a multi-intent indicator
TriggerMatched(ql) ==
    IF ContainsAny(ql, multi_indicators)
    THEN SelectSeq(IntentNames,
                   LAMBDA i : ContainsAny(ql, TriggerChars[IntentIndex(i)]))
    ELSE <<>>

\* Step 2, both loops: the trigger matches, then the intents one of whose
\* keywords is in the query and that are not in the list yet
KeywordMatched(ql) ==
    LET t == TriggerMatched(ql)
    IN  t \o SelectSeq(IntentNames,
                       LAMBDA i : ContainsAny(ql, KeywordChars[IntentIndex(i)])
                                  /\ ~In(i, t))

\* a merge that never reorders
CombineAsSet(pred, kw, seed) == ListOfSet(pred \o kw, seed)

\* the merged list handed to conflict resolution
Combine(pred, kw, seed) ==
    IF Len(kw) >= 2 THEN kw \o Without(pred, kw)
    ELSE ListOfSet(pred \o kw, seed)

doc_signals ==
    CharsOfAll(<<"document", "checklist", "what documents", "required documents">>)

process_signals ==
    CharsOfAll(<<"how long", "timeline", "processing time", "approval",
                 "how many days", "duration">>)

calc_signals ==
    CharsOfAll(<<"calculate gst", "compute gst", "find gst", "add gst",
                 "gst amount", "how much gst", "and calculate", "also calculate">>)

\* Rule A suppressing company_documents only
RuleADocumentsOnly(ql, intents) ==
    IF In("company_guide", intents) /\ ~ContainsAny(ql, doc_signals)
    THEN Drop(intents, "company_documents")
    ELSE intents

\* Rule A: company sub-intent suppression
RuleA(ql, intents) ==
    IF In("company_guide", intents)
    THEN LET r1 == IF ~ContainsAny(ql, doc_signals)
                   THEN Drop(intents, "company_documents") ELSE intents
         IN  IF ~ContainsAny(ql, process_signals)
             THEN Drop(r1, "company_process") ELSE r1
    ELSE intents

\* Rule B removing gst_breakdown instead of calculate_gst
RuleBDropsBreakdown(ql, intents) ==
    IF In("gst_breakdown", intents) /\ In("calculate_gst", intents)
       /\ ~ContainsAny(ql, calc_signals)
    THEN Drop(intents, "gst_breakdown")
    ELSE intents

\* Rule B without the test of the explicit calculate signals
RuleBAlways(ql, intents) ==
    IF In("gst_breakdown", intents) /\ In("calculate_gst", intents)
    THEN Drop(intents, "calculate_gst")
    ELSE intents

\* Rule B: suppress calculate_gst when the query is purely a breakdown request
RuleB(ql, intents) ==
    IF In("gst_breakdown", intents) /\ In("calculate_gst", intents)
       /\ ~ContainsAny(ql, calc_signals)
    THEN Drop(intents, "calculate_gst")
    ELSE intents

\* _resolve_intent_conflicts(query_lower, intents)
ResolveIntentConflicts(ql, intents) == RuleB(ql, RuleA(ql, intents))

\* the number of intents predict_intents returns at most
MaxIntents == 3

\* a truncation that keeps one intent too many
TruncateOneMore(intents) == Take(intents, MaxIntents + 1)

\* predict_intents' return value
Truncate(intents) == Take(intents, MaxIntents)

-----------------------------------------------------------------------------
(* Tool-call planning *)

\* entities.get(k): <<>> for None, else <<value>>
Get(e, k) == IF k \in DOMAIN e THEN <<e[k]>> ELSE <<>>

\* bool() of an optional float
TruthyOpt(o) == o # <<>> /\ Truthy(o[1])

\* entities.get(k, default) for a string entity
GetStr(e, k, default) == IF k \in DOMAIN e THEN e[k] ELSE default

Call(tool, params) == [tool_name |-> tool, parameters |-> params]

\* amount = entities.get("amount") or entities.get("base_amount")
AmountOf(e) == IF TruthyOpt(Get(e, "amount")) THEN Get(e, "amount")
               ELSE Get(e, "base_amount")

\* a calculate branch that fires once per rate and per extracted amount
CalculateCallsPerAmount(intents, e) ==
    IF In("calculate_gst", intents) /\ TruthyOpt(AmountOf(e))
    THEN [n \in 1..(Len(e["gst_rates"]) * Len(e["amounts"])) |->
             Call("calculate_gst",
                  Entry("base_amount", e["amounts"][((n - 1) % Len(e["amounts"])) + 1])
                  @@ Entry("gst_rate",
                           e["gst_rates"][((n - 1) \div Len(e["amounts"])) + 1]))]
    ELSE <<>>

CalculateCalls(intents, e) ==
    LET amount == AmountOf(e)
        gst_rates == e["gst_rates"]
    IN  IF In("calculate_gst", intents) /\ TruthyOpt(amount)
        THEN IF In("compare_rates", intents)
             THEN <<Call("calculate_gst",
                         Entry("base_amount", amount[1])
                         @@ Entry("gst_rate", gst_rates[1]))>>
             ELSE [n \in 1..Len(gst_rates) |->
                      Call("calculate_gst",
                           Entry("base_amount", amount[1])
                           @@ Entry("gst_rate", gst_rates[n]))]
        ELSE <<>>

ReverseCalls(intents, e) ==
    LET total_amount == Get(e, "total_amount")
        amt == IF TruthyOpt(total_amount) THEN total_amount ELSE AmountOf(e)
    IN  IF In("reverse_gst", intents) /\ TruthyOpt(amt)
        THEN <<Call("reverse_calculate_gst",
                    Entry("total_amount", amt[1])
                    @@ Entry("gst_rate", e["gst_rates"][1]))>>
        ELSE <<>>

BreakdownCalls(intents, e) ==
    LET amount == AmountOf(e)
    IN  IF In("gst_breakdown", intents) /\ TruthyOpt(amount)
        THEN <<Call("gst_breakdown",
                    Entry("base_amount", amount[1])
                    @@ Entry("gst_rate", e["gst_rates"][1])
                    @@ (IF "is_intra_state" \in DOMAIN e
                        THEN Entry("is_intra_state", e["is_intra_state"])
                        ELSE Empty))>>
        ELSE <<>>

\* the rates compared when at most one rate was extracted
StandardRates == <<F(5), F(12), F(18), F(28)>>

\* a compare branch that always compares the standard rates
CompareCallsStandardOnly(intents, e) ==
    IF In("compare_rates", intents) /\ TruthyOpt(AmountOf(e))
    THEN <<Call("compare_gst_rates",
                Entry("base_amount", AmountOf(e)[1])
                @@ Entry("rates", StandardRates))>>
    ELSE <<>>

CompareCalls(intents, e) ==
    LET amount == AmountOf(e)
        gst_rates == e["gst_rates"]
    IN  IF In("compare_rates", intents) /\ TruthyOpt(amount)
        THEN <<Call("compare_gst_rates",
                    Entry("base_amount", amount[1])
                    @@ Entry("rates", IF Len(gst_rates) > 1 THEN gst_rates
                                      ELSE StandardRates))>>
        ELSE <<>>

ValidateCalls(intents, e) ==
    IF In("validate_gstin", intents) /\ "gstin" \in DOMAIN e
    THEN <<Call("validate_gstin", Entry("gstin", e["gstin"]))>>
    ELSE <<>>

\* the branches that plan one call without parameters
PlainCalls(intents, intent, tool) ==
    IF In(intent, intents) THEN <<Call(tool, Empty)>> ELSE <<>>

RedbusSearchCalls(intents, e) ==
    IF In("redbus_search", intents)
    THEN <<Call("redbus_search_redirect",
                Entry("source_city", GetStr(e, "source_city", ""))
                @@ Entry("destination_city", GetStr(e, "destination_city", ""))
                @@ Entry("travel_date", GetStr(e, "travel_date", None))
                @@ Entry("redirect_to", "web"))>>
    ELSE <<>>

\* the branches of redbus_booking and redbus_tracking without their test of
\* the ticket id
TinCallsUnconditional(intents, e, intent, tool) ==
    IF In(intent, intents)
    THEN <<Call(tool, Entry("tin", GetStr(e, "tin", None)))>>
    ELSE <<>>

\* the branches of redbus_booking and redbus_tracking
TinCalls(intents, e, intent, tool) ==
    IF In(intent, intents) /\ "tin" \in DOMAIN e
    THEN <<Call(tool, Entry("tin", e["tin"]))>>
    ELSE <<>>

\* the branches of redbus_offers and redbus_routes
SourceCityCalls(intents, e, intent, tool) ==
    IF In(intent, intents)
    THEN <<Call(tool, Entry("source_city", GetStr(e, "source_city", None)))>>
    ELSE <<>>

RedbusOpenCalls(intents, q) ==
    IF In("redbus_open", intents)
    THEN <<Call("open_redbus",
                Entry("redirect_to", IF Contains(Lower(q), Chars("app")) THEN "app"
                                     ELSE "web"))>>
    ELSE <<>>

\* the branches with the validate branch moved to the front
PlanToolCallsValidateFirst(q, intents, e) ==
    ValidateCalls(intents, e)
    \o CalculateCalls(intents, e)
    \o ReverseCalls(intents, e)
    \o BreakdownCalls(intents, e)
    \o CompareCalls(intents, e)
    \o PlainCalls(intents, "company_guide", "get_company_onboarding_guide")
    \o PlainCalls(intents, "company_documents", "get_company_required_documents")
    \o PlainCalls(intents, "company_field", "get_validation_formats")
    \o PlainCalls(intents, "company_process", "get_onboarding_faq")
    \o PlainCalls(intents, "bank_guide", "get_bank_onboarding_guide")
    \o PlainCalls(intents, "vendor_guide", "get_vendor_onboarding_guide")
    \o RedbusSearchCalls(intents, e)
    \o TinCalls(intents, e, "redbus_booking", "redbus_booking_redirect")
    \o SourceCityCalls(intents, e, "redbus_offers", "redbus_offers_redirect")
    \o TinCalls(intents, e, "redbus_tracking", "redbus_tracking_redirect")
    \o SourceCityCalls(intents, e, "redbus_routes", "get_popular_routes")
    \o RedbusOpenCalls(intents, q)

\* process_query's tool_calls, branch by branch
PlanToolCalls(q, intents, e) ==
    CalculateCalls(intents, e)
    \o ReverseCalls(intents, e)
    \o BreakdownCalls(intents, e)
    \o CompareCalls(intents, e)
    \o ValidateCalls(intents, e)
    \o PlainCalls(intents, "company_guide", "get_company_onboarding_guide")
    \o PlainCalls(intents, "company_documents", "get_company_required_documents")
    \o PlainCalls(intents, "company_field", "get_validation_formats")
    \o PlainCalls(intents, "company_process", "get_onboarding_faq")
    \o PlainCalls(intents, "bank_guide", "get_bank_onboarding_guide")
    \o PlainCalls(intents, "vendor_guide", "get_vendor_onboarding_guide")
    \o RedbusSearchCalls(intents, e)
    \o TinCalls(intents, e, "redbus_booking", "redbus_booking_redirect")
    \o SourceCityCalls(intents, e, "redbus_offers", "redbus_offers_redirect")
    \o TinCalls(intents, e, "redbus_tracking", "redbus_tracking_redirect")
    \o SourceCityCalls(intents, e, "redbus_routes", "get_popular_routes")
    \o RedbusOpenCalls(intents, q)

-----------------------------------------------------------------------------
(* Inputs *)

\* the longest utterance, in phrases
MaxChunks == 3
\* the most classes the classifier puts above every threshold
MaxHot == 2
\* the number of hash seeds a process can start with
NumSeeds == 2
\* the number of process restarts followed
MaxRestarts == 1

\* the queries of the test suite of train_model.py, and queries like them
ExampleQueries ==
    {"calculate gst on 10000 at 18%",
     "how to register my company",
     "calculate gst on 5000 at 12% and show breakdown",
     "calculate gst on 10000 at 18% and also compare with 12%",
     "validate gstin 29ABCDE1234F1Z5 and calculate gst on 5000 at 12%",
     "show gst breakdown for 10000 at 18% along with company registration process",
     "calculate gst on 5000 at 5% and 12% and 18%",
     "validate 29ABCDE1234F1Z5 and calculate gst on 5000 at 12%",
     "how to register my company and what documents are required",
     "show gst breakdown for 5000 at 12%",
     "book bus tickets",
     "book bus from Delhi to Mumbai",
     "show me the registration process",
     "track my bus",
     "track my bus ticket TIN12345",
     "please can you kindly tell me how much tax i would owe on an order of 5000"}

\* queries of 10, 11, 15 and 16 words, where the threshold changes
BoundaryQueries ==
    {"please tell me the tax on an order of 5000",
     "please tell me the tax on an order of 5000 rupees",
     "please tell me the tax on an order of 5000 rupees for my new shop",
     "please tell me the tax on an order of 5000 rupees for my new shop today"}

\* utterances with percentages that share digits, a date, a ticket number,
\* words that contain a state-locality marker, and an upper-case lexicon entry
EdgeQueries ==
    {"gst on 5000 at 5% and 15%",
     "gst on 5000 at 18  percent",
     "book bus on 2025-01-15",
     "gst on interest of 5000",
     "show gst breakdown for 5000 intra state",
     "show gst breakdown for 5000 interstate",
     "show gst breakdown on interest of 5000",
     "what is the bus ETA"}

\* the phrases utterances are composed of
Chunks ==
    {"gst on 5000", " and 12%", " and 5% and 18% and 28%", " 0",
     " 29ABCDE1234F1Z5", " 29abcde1234f1Z5", " compare", " show breakdown",
     " reverse gst 1180"}

RECURSIVE Composed(_)
\* the concatenations of at most n phrases
Composed(n) ==
    IF n = 0 THEN {""}
    ELSE LET shorter == Composed(n - 1)
         IN  shorter \cup {u \o c : u \in shorter, c \in Chunks}

\* the probabilities, in hundredths, of a class the classifier favours, of one
\* it finds plausible, and of the others
High == 40
Mid == 32
Low == 10
\* the probability of a class that clears only the lowest threshold
Faint == 27

\* the probability vector with the classes of hot at High and of warm at Mid
Vector(hot, warm) ==
    [i \in 1..Len(Classes) |->
        IF Classes[i] \in hot THEN High ELSE IF Classes[i] \in warm THEN Mid ELSE Low]

\* the probability vector with the classes of faint at Faint
FaintVector(faint) ==
    [i \in 1..Len(Classes) |-> IF Classes[i] \in faint THEN Faint ELSE Low]

ClassSet == {Classes[i] : i \in 1..Len(Classes)}

\* vectors with two plausible or two faint classes
TwoTierVectors ==
    {Vector({}, {"calculate_gst", c}) : c \in {"gst_breakdown", "bank_guide"}}
    \cup {FaintVector({"calculate_gst", c}) : c \in {"gst_breakdown", "bank_guide"}}

\* every vector with at most MaxHot favoured classes, every vector with no
\* favoured and one plausible or one faint class, and vectors with two
\* plausible or two faint classes
WideVectors ==
    {Vector(hot, {}) : hot \in {h \in SUBSET ClassSet : Cardinality(h) <= MaxHot}}
    \cup {Vector({}, {c}) : c \in ClassSet}
    \cup {FaintVector({c}) : c \in ClassSet}
    \cup TwoTierVectors

NarrowVectors == {Vector({}, {}), Vector({"calculate_gst"}, {})}

Inputs ==
    (ExampleQueries \X WideVectors)
    \cup (Composed(MaxChunks) \X NarrowVectors)
    \cup (BoundaryQueries \X (TwoTierVectors \cup NarrowVectors))
    \cup (EdgeQueries \X NarrowVectors)

Queries ==
    ExampleQueries \cup Composed(MaxChunks) \cup BoundaryQueries \cup EdgeQueries

\* per query: its characters, its trigger and keyword matches and its
\* entities, computed once
QueryChars == [q \in Queries |-> Chars(q)]
TriggersOf == [q \in Queries |-> TriggerMatched(Lower(QueryChars[q]))]
KeywordsOf == [q \in Queries |-> KeywordMatched(Lower(QueryChars[q]))]
EntitiesOf == [q \in Queries |-> ExtractFrom(QueryChars[q])]

-----------------------------------------------------------------------------
(* The process *)

Seeds == 1..NumSeeds

\* the outputs the classifier can give for a query
VectorsFor(q) == {in[2] : in \in {x \in Inputs : x[1] = q}}

\* not (not self.vectorizer or not self.classifier)
ModelSet == vectorizer # "unset" /\ classifier # "unset"

\* vectorizer.transform and classifier.predict_proba work on fitted estimators
Fitted == vectorizer = "fitted" /\ classifier = "fitted"

\* the variables process_query's results are kept in
outputs == <<predicted, keyword_matched, trigger_matched, combined, resolved,
             detected_intents, entities, tool_calls>>

\* what process_query returns
Result == [intents_detected |-> detected_intents,
           tool_calls |-> tool_calls,
           entities |-> entities]

\* after __init__: the model file was found and loaded, or it was not found
\* and there is no model, hence no classifier output
Init ==
    /\ hashseed \in Seeds
    /\ \/ /\ vectorizer = "fitted" /\ classifier = "fitted"
          /\ \E in \in Inputs : query = in[1] /\ proba = in[2]
       \/ /\ vectorizer = "unset" /\ classifier = "unset"
          /\ query \in ExampleQueries /\ proba = <<>>
    /\ pc = "ready"
    /\ predicted = <<>>
    /\ keyword_matched = <<>>
    /\ trigger_matched = <<>>
    /\ combined = <<>>
    /\ resolved = <<>>
    /\ detected_intents = <<>>
    /\ entities = Empty
    /\ tool_calls = <<>>
    /\ prev = <<>>
    /\ restarts = 0
    /\ inflight = <<>> /\ frames = <<>>
    /\ installed = <<>> /\ loader = <<>>
    /\ service = <<>> /\ mcp_results = <<>>

\* process_query(user_message) on a loaded model
ProcessQuery ==
    /\ pc = "ready"
    /\ ModelSet /\ Fitted
    /\ LET q == QueryChars[query]
           ql == Lower(q)
           pred == Predicted(q, proba)
           kw == KeywordsOf[query]
           comb == Combine(pred, kw, hashseed)
           res == ResolveIntentConflicts(ql, comb)
           intents == Truncate(res)
           e == EntitiesOf[query]
       IN  /\ predicted' = pred
           /\ trigger_matched' = TriggersOf[query]
           /\ keyword_matched' = kw
           /\ combined' = comb
           /\ resolved' = res
           /\ detected_intents' = intents
           /\ entities' = e
           /\ tool_calls' = PlanToolCalls(q, intents, e)
    /\ pc' = "done"
    /\ UNCHANGED <<hashseed, query, proba, vectorizer, classifier, prev, restarts>>
    /\ UNCHANGED <<concurrent, reloading, executing>>

\* process_query returning an empty result where it has no usable model
ProcessQueryReturnsEmpty ==
    /\ pc = "ready"
    /\ ~(ModelSet /\ Fitted)
    /\ pc' = "done"
    /\ UNCHANGED <<hashseed, query, proba, vectorizer, classifier, outputs, prev,
                   restarts>>
    /\ UNCHANGED <<concurrent, reloading, executing>>

\* process_query(user_message) without a usable model: predict_intents raises
\* before anything is computed
ProcessQueryRaises ==
    /\ pc = "ready"
    /\ ~(ModelSet /\ Fitted)
    /\ pc' = "raised"
    /\ UNCHANGED <<hashseed, query, proba, vectorizer, classifier, outputs, prev,
                   restarts>>
    /\ UNCHANGED <<concurrent, reloading, executing>>

\* train(): self.vectorizer = TfidfVectorizer(...)
TrainSetVectorizer ==
    /\ pc \in {"ready", "raised"}
    /\ vectorizer = "unset" /\ classifier = "unset"
    /\ vectorizer' = "unfitted"
    /\ pc' = "ready"
    /\ UNCHANGED <<hashseed, query, proba, classifier, outputs, prev, restarts>>
    /\ UNCHANGED <<concurrent, reloading, executing>>

\* train(): self.vectorizer.fit_transform(X_train)
TrainFitVectorizer ==
    /\ pc \in {"ready", "raised"}
    /\ vectorizer = "unfitted" /\ classifier = "unset"
    /\ vectorizer' = "fitted"
    /\ pc' = "ready"
    /\ UNCHANGED <<hashseed, query, proba, classifier, outputs, prev, restarts>>
    /\ UNCHANGED <<concurrent, reloading, executing>>

\* train(): self.classifier = OneVsRestClassifier(...)
TrainSetClassifier ==
    /\ pc \in {"ready", "raised"}
    /\ vectorizer = "fitted" /\ classifier = "unset"
    /\ classifier' = "unfitted"
    /\ pc' = "ready"
    /\ UNCHANGED <<hashseed, query, proba, vectorizer, outputs, prev, restarts>>
    /\ UNCHANGED <<concurrent, reloading, executing>>

\* train(): self.classifier.fit(X_train_vec, y_train_bin)
TrainFitClassifier ==
    /\ pc \in {"ready", "raised"}
    /\ vectorizer = "fitted" /\ classifier = "unfitted"
    /\ classifier' = "fitted"
    /\ proba' \in VectorsFor(query)
    /\ pc' = "ready"
    /\ UNCHANGED <<hashseed, query, vectorizer, outputs, prev, restarts>>
    /\ UNCHANGED <<concurrent, reloading, executing>>

\* load_model(): the estimators of the model file replace the object's
LoadModel ==
    /\ pc \in {"ready", "raised"}
    /\ ~(ModelSet /\ Fitted)
    /\ vectorizer' = "fitted"
    /\ classifier' = "fitted"
    /\ proba' \in VectorsFor(query)
    /\ pc' = "ready"
    /\ UNCHANGED <<hashseed, query, outputs, prev, restarts>>
    /\ UNCHANGED <<concurrent, reloading, executing>>

\* the serving process is restarted with the same model file and receives the
\* same utterance again; the interpreter draws a new hash seed
Restart ==
    /\ pc = "done"
    /\ restarts < MaxRestarts
    /\ hashseed' \in Seeds
    /\ prev' = <<Result>>
    /\ restarts' = restarts + 1
    /\ pc' = "ready"
    /\ predicted' = <<>>
    /\ keyword_matched' = <<>>
    /\ trigger_matched' = <<>>
    /\ combined' = <<>>
    /\ resolved' = <<>>
    /\ detected_intents' = <<>>
    /\ entities' = Empty
    /\ tool_calls' = <<>>
    /\ UNCHANGED <<query, proba, vectorizer, classifier>>
    /\ UNCHANGED <<concurrent, reloading, executing>>

Next ==
    \/ ProcessQuery
    \/ ProcessQueryRaises
    \/ TrainSetVectorizer
    \/ TrainFitVectorizer
    \/ TrainSetClassifier
    \/ TrainFitClassifier
    \/ LoadModel
    \/ Restart

Spec == Init /\ [][Next]_vars

-----------------------------------------------------------------------------
(* Concurrent requests on a loaded model *)

\* the number of process_query calls in flight at a time
NumCallers == 2
\* the number of model files (completed trainings) followed
NumModels == 2

Callers == 1..NumCallers
Models == 1..NumModels

\* the utterances of concurrent requests
ConcurrentQueries ==
    {"calculate gst on 5000 at 12% and show breakdown",
     "how to register my company",
     "track my bus ticket TIN12345"}

\* classifier.predict_proba of the classifier of model file m, for query q
ProbaOf(m, q) ==
    IF m = 1 THEN Vector({}, {})
    ELSE IF Contains(Lower(QueryChars[q]), Chars("gst"))
    THEN Vector({"calculate_gst"}, {})
    ELSE Vector({"company_guide", "company_documents"}, {})

\* predict_intents(query_str) when predict_proba gives p, under hash seed seed
PredictIntents(query_str, p, seed) ==
    LET q == QueryChars[query_str]
    IN  Truncate(ResolveIntentConflicts(Lower(q),
            Combine(Predicted(q, p), KeywordsOf[query_str], seed)))

\* process_query(query_str) run alone
Analysis(query_str, p, seed) ==
    LET intents == PredictIntents(query_str, p, seed)
        e == EntitiesOf[query_str]
    IN  [intents_detected |-> intents,
         tool_calls |-> PlanToolCalls(QueryChars[query_str], intents, e),
         entities |-> e]

\* every call's frame is the call's frame of another
SharedFrame(t) == 1

\* the frame that holds the local variables of call t: its own
FrameOf(t) == t

\* the local variables of a call that has just been entered
NewFrame == [detected_intents |-> <<>>, entities |-> Empty, tool_calls |-> <<>>]

\* a component of a completed train() or load_model() of model file m
Component(m) == [from |-> m, fitted |-> TRUE]

\* no single request is followed
NoSingle ==
    /\ query = "" /\ proba = <<>> /\ pc = "off"
    /\ vectorizer = "unset" /\ classifier = "unset"
    /\ predicted = <<>> /\ keyword_matched = <<>> /\ trigger_matched = <<>>
    /\ combined = <<>> /\ resolved = <<>> /\ detected_intents = <<>>
    /\ entities = Empty /\ tool_calls = <<>> /\ prev = <<>> /\ restarts = 0

\* a model file was loaded by __init__, and NumCallers requests have arrived
ConcurrentInit ==
    /\ hashseed \in Seeds
    /\ NoSingle
    /\ \E m \in Models :
           installed = [vectorizer |-> Component(m), classifier |-> Component(m),
                        mlb |-> Component(m)]
    /\ loader = <<>>
    /\ inflight \in [Callers -> [query : ConcurrentQueries, pc : {"entered"},
                                 result : {<<>>}]]
    /\ frames = [t \in Callers |-> NewFrame]
    /\ service = <<>> /\ mcp_results = <<>>

\* process_query of call t: detected_intents = self.predict_intents(user_message)
CallPredictIntents(t) ==
    /\ inflight[t].pc = "entered"
    /\ frames' = [frames EXCEPT ![FrameOf(t)].detected_intents =
                      PredictIntents(inflight[t].query,
                                     ProbaOf(installed.classifier.from,
                                             inflight[t].query),
                                     hashseed)]
    /\ inflight' = [inflight EXCEPT ![t].pc = "predicted"]
    /\ UNCHANGED <<single, reloading, executing>>

\* process_query of call t: entities = self.extract_entities(user_message)
CallExtractEntities(t) ==
    /\ inflight[t].pc = "predicted"
    /\ frames' = [frames EXCEPT ![FrameOf(t)].entities = EntitiesOf[inflight[t].query]]
    /\ inflight' = [inflight EXCEPT ![t].pc = "extracted"]
    /\ UNCHANGED <<single, reloading, executing>>

\* process_query of call t: the branches that fill tool_calls
CallPlanToolCalls(t) ==
    /\ inflight[t].pc = "extracted"
    /\ frames' = [frames EXCEPT ![FrameOf(t)].tool_calls =
                      PlanToolCalls(QueryChars[inflight[t].query],
                                    frames[FrameOf(t)].detected_intents,
                                    frames[FrameOf(t)].entities)]
    /\ inflight' = [inflight EXCEPT ![t].pc = "planned"]
    /\ UNCHANGED <<single, reloading, executing>>

\* process_query of call t: return {...}
CallReturn(t) ==
    /\ inflight[t].pc = "planned"
    /\ inflight' = [inflight EXCEPT
                        ![t].pc = "returned",
                        ![t].result =
                            <<[intents_detected |-> frames[FrameOf(t)].detected_intents,
                               tool_calls |-> frames[FrameOf(t)].tool_calls,
                               entities |-> frames[FrameOf(t)].entities]>>]
    /\ UNCHANGED <<single, frames, reloading, executing>>

ConcurrentNext ==
    \/ \E t \in Callers : CallPredictIntents(t)
    \/ \E t \in Callers : CallExtractEntities(t)
    \/ \E t \in Callers : CallPlanToolCalls(t)
    \/ \E t \in Callers : CallReturn(t)

ConcurrentSpec == ConcurrentInit /\ [][ConcurrentNext]_vars

-----------------------------------------------------------------------------
(* A request that overlaps train() or load_model() *)

\* the number of requests that overlap the train() or load_model()
NumOverlapping == 1

Overlapping == 1..NumOverlapping

\* an attribute that is None
NoComponent == [from |-> 0, fitted |-> FALSE]

\* a newly constructed estimator of training m, before its fit
Unfitted(m) == [from |-> m, fitted |-> FALSE]

\* no train() or load_model() is in progress; last is the last one completed
Idle(last) == [op |-> "idle", at |-> 0, model |-> 0, last |-> last]

\* after __init__, with or without a model file, and a request has arrived;
\* train() and load_model() can be called on the same object after that
ReloadInit ==
    /\ hashseed \in Seeds
    /\ NoSingle
    /\ \/ /\ installed = [vectorizer |-> NoComponent, classifier |-> NoComponent,
                           mlb |-> NoComponent]
          /\ loader = Idle(0)
       \/ /\ installed = [vectorizer |-> Component(1), classifier |-> Component(1),
                           mlb |-> Component(1)]
          /\ loader = Idle(1)
    /\ inflight \in [Overlapping -> [query : ConcurrentQueries, pc : {"entered"},
                             proba : {<<>>},
                             used : {[vectorizer |-> 0, classifier |-> 0,
                                      mlb |-> 0]},
                             result : {<<>>}]]
    /\ frames = <<>>
    /\ service = <<>> /\ mcp_results = <<>>

\* predict_intents: if not self.vectorizer or not self.classifier: raise
ServeCheck(t) ==
    /\ inflight[t].pc = "entered"
    /\ inflight' = [inflight EXCEPT ![t].pc =
                        IF installed.vectorizer = NoComponent
                           \/ installed.classifier = NoComponent
                        THEN "raised" ELSE "checked"]
    /\ UNCHANGED <<single, frames, reloading, executing>>

\* predict_intents: X = self.vectorizer.transform([query]); an estimator that
\* is not fitted raises NotFittedError
ServeTransform(t) ==
    /\ inflight[t].pc = "checked"
    /\ inflight' = [inflight EXCEPT
                        ![t].pc = IF installed.vectorizer.fitted
                                  THEN "transformed" ELSE "failed",
                        ![t].used.vectorizer = installed.vectorizer.from]
    /\ UNCHANGED <<single, frames, reloading, executing>>

\* predict_intents: probabilities = self.classifier.predict_proba(X)[0]; on
\* features of another training's vectorizer it raises or gives the
\* probabilities of some other input
ServePredictProba(t) ==
    /\ inflight[t].pc = "transformed"
    /\ \/ /\ ~installed.classifier.fitted
          /\ inflight' = [inflight EXCEPT
                              ![t].pc = "failed",
                              ![t].used.classifier = installed.classifier.from]
       \/ /\ installed.classifier.fitted
          /\ installed.classifier.from = inflight[t].used.vectorizer
          /\ inflight' = [inflight EXCEPT
                              ![t].pc = "scored",
                              ![t].used.classifier = installed.classifier.from,
                              ![t].proba = ProbaOf(installed.classifier.from,
                                                   inflight[t].query)]
       \/ /\ installed.classifier.fitted
          /\ installed.classifier.from # inflight[t].used.vectorizer
          /\ \/ inflight' = [inflight EXCEPT
                                 ![t].pc = "failed",
                                 ![t].used.classifier = installed.classifier.from]
             \/ \E m \in Models :
                    inflight' = [inflight EXCEPT
                                    ![t].pc = "scored",
                                    ![t].used.classifier = installed.classifier.from,
                                    ![t].proba = ProbaOf(m, inflight[t].query)]
    /\ UNCHANGED <<single, frames, reloading, executing>>

\* predict_intents from self.mlb.classes_ on, and the rest of process_query;
\* without a fitted label binarizer the read of classes_ raises
ServeLabelsAndPlan(t) ==
    /\ inflight[t].pc = "scored"
    /\ inflight' = [inflight EXCEPT
                        ![t].pc = IF installed.mlb.fitted THEN "returned" ELSE "failed",
                        ![t].used.mlb = installed.mlb.from,
                        ![t].result =
                            IF installed.mlb.fitted
                            THEN <<Analysis(inflight[t].query, inflight[t].proba,
                                            hashseed)>>
                            ELSE <<>>]
    /\ UNCHANGED <<single, frames, reloading, executing>>

\* train(): self.vectorizer = TfidfVectorizer(...)
RetrainVectorizer ==
    /\ loader.op = "idle" /\ loader.last < NumModels
    /\ installed' = [installed EXCEPT !.vectorizer = Unfitted(loader.last + 1)]
    /\ loader' = [loader EXCEPT !.op = "train", !.at = 1, !.model = loader.last + 1]
    /\ UNCHANGED <<single, concurrent, executing>>

\* train(): self.vectorizer.fit_transform(X_train)
RetrainFitVectorizer ==
    /\ loader.op = "train" /\ loader.at = 1
    /\ installed' = [installed EXCEPT !.vectorizer.fitted = TRUE]
    /\ loader' = [loader EXCEPT !.at = 2]
    /\ UNCHANGED <<single, concurrent, executing>>

\* train(): self.mlb = MultiLabelBinarizer()
RetrainMlb ==
    /\ loader.op = "train" /\ loader.at = 2
    /\ installed' = [installed EXCEPT !.mlb = Unfitted(loader.model)]
    /\ loader' = [loader EXCEPT !.at = 3]
    /\ UNCHANGED <<single, concurrent, executing>>

\* train(): self.mlb.fit_transform(y_train)
RetrainFitMlb ==
    /\ loader.op = "train" /\ loader.at = 3
    /\ installed' = [installed EXCEPT !.mlb.fitted = TRUE]
    /\ loader' = [loader EXCEPT !.at = 4]
    /\ UNCHANGED <<single, concurrent, executing>>

\* train(): self.classifier = OneVsRestClassifier(...)
RetrainClassifier ==
    /\ loader.op = "train" /\ loader.at = 4
    /\ installed' = [installed EXCEPT !.classifier = Unfitted(loader.model)]
    /\ loader' = [loader EXCEPT !.at = 5]
    /\ UNCHANGED <<single, concurrent, executing>>

\* train(): self.classifier.fit(X_train_vec, y_train_bin), and train() is over
RetrainFitClassifier ==
    /\ loader.op = "train" /\ loader.at = 5
    /\ installed' = [installed EXCEPT !.classifier.fitted = TRUE]
    /\ loader' = Idle(loader.model)
    /\ UNCHANGED <<single, concurrent, executing>>

\* load_model(): self.vectorizer = model_data["vectorizer"]
ReloadVectorizer ==
    /\ loader.op = "idle" /\ loader.last < NumModels
    /\ installed' = [installed EXCEPT !.vectorizer = Component(loader.last + 1)]
    /\ loader' = [loader EXCEPT !.op = "load", !.at = 1, !.model = loader.last + 1]
    /\ UNCHANGED <<single, concurrent, executing>>

\* load_model(): self.classifier = model_data["classifier"]
ReloadClassifier ==
    /\ loader.op = "load" /\ loader.at = 1
    /\ installed' = [installed EXCEPT !.classifier = Component(loader.model)]
    /\ loader' = [loader EXCEPT !.at = 2]
    /\ UNCHANGED <<single, concurrent, executing>>

\* load_model(): self.mlb = model_data["mlb"], and load_model() is over
ReloadMlb ==
    /\ loader.op = "load" /\ loader.at = 2
    /\ installed' = [installed EXCEPT !.mlb = Component(loader.model)]
    /\ loader' = Idle(loader.model)
    /\ UNCHANGED <<single, concurrent, executing>>

ReloadNext ==
    \/ \E t \in Overlapping : ServeCheck(t)
    \/ \E t \in Overlapping : ServeTransform(t)
    \/ \E t \in Overlapping : ServePredictProba(t)
    \/ \E t \in Overlapping : ServeLabelsAndPlan(t)
    \/ RetrainVectorizer
    \/ RetrainFitVectorizer
    \/ RetrainMlb
    \/ RetrainFitMlb
    \/ RetrainClassifier
    \/ RetrainFitClassifier
    \/ ReloadVectorizer
    \/ ReloadClassifier
    \/ ReloadMlb

ReloadSpec == ReloadInit /\ [][ReloadNext]_vars

-----------------------------------------------------------------------------
(* LocalMLService.process_query: the executor of the planned calls *)

\* the utterances sent to the service
ServiceQueries ==
    ConcurrentQueries \cup {"calculate gst on 5000 at 5% and 12% and 18%"}

\* the tools of the lexicon
AllTools == {Tool(IntentNames[n]) : n \in 1..Len(IntentNames)}

\* the tool names the three MCP clients can advertise (available_tools)
ToolSets == {AllTools, AllTools \ {"gst_breakdown", "redbus_tracking_redirect"}}

\* the loop is left at the first call that fails
StopAfterFailure(n, total) == total + 1

\* the index of the call the loop handles after call n of total has failed:
\* the next one (continue, and the end of the except clause)
AfterFailure(n, total) == n + 1

\* an entry of mcp_results of a call that succeeded, that failed
Succeeded(spec) ==
    [tool |-> spec.tool_name, input |-> spec.parameters, result |-> "parsed",
     success |-> TRUE]
Failed(spec, error) ==
    [tool |-> spec.tool_name, input |-> spec.parameters, error |-> error,
     success |-> FALSE]

\* a model file was loaded, the MCP clients are connected and a message has
\* arrived
ServiceInit ==
    /\ hashseed \in Seeds
    /\ NoSingle
    /\ \E m \in Models :
           installed = [vectorizer |-> Component(m), classifier |-> Component(m),
                        mlb |-> Component(m)]
    /\ loader = <<>>
    /\ inflight = <<>> /\ frames = <<>>
    /\ service \in [pc : {"received"}, user_message : ServiceQueries,
                    tool_client_map : ToolSets, tool_calls_specs : {<<>>},
                    intents_detected : {<<>>}, idx : {0}, outcomes : {<<>>}]
    /\ mcp_results = <<>>

\* steps 1 and 2: analysis = self.intent_classifier.process_query(user_message),
\* the clients and the tool-to-client map
ServiceAnalyse ==
    /\ service.pc = "received"
    /\ LET analysis == Analysis(service.user_message,
                                ProbaOf(installed.classifier.from,
                                        service.user_message),
                                hashseed)
       IN  service' = [service EXCEPT
                          !.pc = "executing",
                          !.tool_calls_specs = analysis.tool_calls,
                          !.intents_detected = analysis.intents_detected,
                          !.idx = 1]
    /\ mcp_results' = <<>>
    /\ UNCHANGED <<single, concurrent, reloading>>

\* the call the loop of step 3 is at
Executing ==
    service.pc = "executing" /\ service.idx <= Len(service.tool_calls_specs)
ToolSpec == service.tool_calls_specs[service.idx]

\* step 3, no client for the tool: an entry with success False, and continue
ExecuteNoClient ==
    /\ Executing
    /\ ToolSpec.tool_name \notin service.tool_client_map
    /\ mcp_results' = Append(mcp_results, Failed(ToolSpec, "not found"))
    /\ service' = [service EXCEPT
                       !.idx = AfterFailure(service.idx, Len(service.tool_calls_specs)),
                       !.outcomes = Append(service.outcomes, "no client")]
    /\ UNCHANGED <<single, concurrent, reloading>>

\* step 3, call_tool returns success with a result
ExecuteSuccess ==
    /\ Executing
    /\ ToolSpec.tool_name \in service.tool_client_map
    /\ mcp_results' = Append(mcp_results, Succeeded(ToolSpec))
    /\ service' = [service EXCEPT
                       !.idx = service.idx + 1,
                       !.outcomes = Append(service.outcomes, "success")]
    /\ UNCHANGED <<single, concurrent, reloading>>

\* step 3, call_tool returns without success or without a result
ExecuteErrorResult ==
    /\ Executing
    /\ ToolSpec.tool_name \in service.tool_client_map
    /\ mcp_results' = Append(mcp_results, Failed(ToolSpec, "error result"))
    /\ service' = [service EXCEPT
                       !.idx = AfterFailure(service.idx, Len(service.tool_calls_specs)),
                       !.outcomes = Append(service.outcomes, "error result")]
    /\ UNCHANGED <<single, concurrent, reloading>>

\* step 3, call_tool or the handling of its result raises
ExecuteException ==
    /\ Executing
    /\ ToolSpec.tool_name \in service.tool_client_map
    /\ mcp_results' = Append(mcp_results, Failed(ToolSpec, "exception"))
    /\ service' = [service EXCEPT
                       !.idx = AfterFailure(service.idx, Len(service.tool_calls_specs)),
                       !.outcomes = Append(service.outcomes, "exception")]
    /\ UNCHANGED <<single, concurrent, reloading>>

\* step 4 and the return: "tool_calls": mcp_results
ServiceRespond ==
    /\ service.pc = "executing"
    /\ service.idx > Len(service.tool_calls_specs)
    /\ service' = [service EXCEPT !.pc = "returned"]
    /\ UNCHANGED <<single, concurrent, reloading, mcp_results>>

ServiceNext ==
    \/ ServiceAnalyse
    \/ ExecuteNoClient
    \/ ExecuteSuccess
    \/ ExecuteErrorResult
    \/ ExecuteException
    \/ ServiceRespond

ServiceSpec == ServiceInit /\ [][ServiceNext]_vars

-----------------------------------------------------------------------------
(* Properties *)

Done == pc = "done"

\* the characters of the request's utterance, and their lower case
QueryOf == QueryChars[query]
QueryLower == Lower(QueryOf)

\* the members of a list
SetOf(xs) == {xs[n] : n \in 1..Len(xs)}

\* no member of the list occurs twice
NoDuplicates(xs) == \A m, n \in 1..Len(xs) : xs[m] = xs[n] => m = n

\* the calls of tool_calls to one tool, in order
CallsTo(tool) == SelectSeq(tool_calls, LAMBDA c : c.tool_name = tool)

Detected(intent) == In(intent, detected_intents)

\* no classifier probability is above the threshold of the utterance
NothingAboveThreshold ==
    \A i \in 1..Len(proba) : proba[i] <= Threshold(QueryOf)

\* C1: with a loaded model process_query returns a non-empty intents_detected
\* list for every utterance and every probability vector: the classifier's
\* decision is never empty, and conflict resolution never removes the last
\* intent.
C1_IntentsNonEmpty ==
    Done => /\ predicted # <<>>
            /\ combined # <<>>
            /\ resolved # <<>>
            /\ detected_intents # <<>>

\* C1's case: no class clears the threshold, the fallback intent is merged
\* with a keyword match and conflict resolution removes an intent.
C1_Witness ==
    /\ Done
    /\ NothingAboveThreshold
    /\ Len(predicted) = 1
    /\ Len(resolved) < Len(combined)

\* the entity that supplies a required parameter
EntityKey(param) == IF param = "rates" THEN "gst_rates" ELSE param

\* the intents planned by a tool
IntentsOfTool(tool) == {i \in SetOf(IntentNames) : Tool(i) = tool}

\* C2 as claimed: every planned tool call has every required parameter of its
\* intent among the extracted entities.
C2_RequiredParamsPresent ==
    Done => \A n \in 1..Len(tool_calls) :
                \A i \in IntentsOfTool(tool_calls[n].tool_name) :
                    \A k \in 1..Len(RequiredParams(i)) :
                        EntityKey(RequiredParams(i)[k]) \in DOMAIN entities

\* the number of percentage rates process_query plans with
NumRates == Len(entities["gst_rates"])

C4_SameResultOnSameUtterance ==
    (Done /\ prev # <<>>) => Result = prev[1]

\* an identifier-shaped token starts at i: 2 digits, 5 letters, 4 digits, a
\* letter, an alphanumeric, 'Z', an alphanumeric, between word boundaries
TokenAt(s, i) ==
    /\ i + 14 <= Len(s)
    /\ Boundary(s, i)
    /\ \A k \in 0..1 : IsDigit(At(s, i + k))
    /\ \A k \in 2..6 : IsUpper(At(s, i + k)) \/ IsLower(At(s, i + k))
    /\ \A k \in 7..10 : IsDigit(At(s, i + k))
    /\ IsUpper(At(s, i + 11)) \/ IsLower(At(s, i + 11))
    /\ IsWord(At(s, i + 12)) /\ At(s, i + 12) # "_"
    /\ At(s, i + 13) = "Z"
    /\ IsWord(At(s, i + 14)) /\ At(s, i + 14) # "_"
    /\ Boundary(s, i + 15)

TokenStarts(s) == {i \in 1..Len(s) : TokenAt(s, i)}

RECURSIVE WithoutTokensFrom(_, _)
WithoutTokensFrom(s, i) ==
    IF i > Len(s) THEN <<>>
    ELSE IF TokenAt(s, i) THEN WithoutTokensFrom(s, i + 15)
    ELSE <<s[i]>> \o WithoutTokensFrom(s, i + 1)

\* the utterance without its identifier-shaped tokens
WithoutTokens(s) == WithoutTokensFrom(s, 1)

\* C5 as claimed: an identifier-shaped token of the utterance is returned as
\* the identifier, and the amounts and rates are those of the rest of the
\* utterance: no digit run of a token is among them.
C5_IdentifierNeverLeaks ==
    (Done /\ TokenStarts(QueryOf) # {}) =>
        /\ "gstin" \in DOMAIN entities
        /\ \E i \in TokenStarts(QueryOf) :
               entities["gstin"] = Str(SubSeq(QueryOf, i, i + 14))
        /\ LET rest == ExtractFrom(WithoutTokens(QueryOf))
           IN  /\ Get(entities, "amounts") = Get(rest, "amounts")
               /\ entities["gst_rates"] = rest["gst_rates"]

RECURSIVE Distinct(_)
\* the members of a list once each, in the order of their first occurrence
Distinct(xs) ==
    IF xs = <<>> THEN <<>>
    ELSE LET front == Distinct(SubSeq(xs, 1, Len(xs) - 1))
             last == xs[Len(xs)]
         IN  IF In(last, front) THEN front ELSE front \o <<last>>

CalculateCall(amount, rate) ==
    Call("calculate_gst", Entry("base_amount", amount) @@ Entry("gst_rate", rate))

\* C6 as claimed: with calculate_gst detected, compare_rates not detected and
\* an amount extracted, the calculate_gst calls are one per distinct rate, in
\* utterance order, each bound to the first amount.
C6_OneCallPerDistinctRate ==
    (Done /\ Detected("calculate_gst") /\ ~Detected("compare_rates")
          /\ "amounts" \in DOMAIN entities) =>
        LET rates == Distinct(entities["gst_rates"])
        IN  CallsTo("calculate_gst") =
                [n \in 1..Len(rates) |->
                    CalculateCall(entities["amounts"][1], rates[n])]

\* C7 as claimed: with calculate_gst and compare_rates detected and an amount
\* extracted, there is exactly one calculate_gst call, bound to the first
\* rate, and exactly one compare_gst_rates call.
C7_OneCalculateOneCompare ==
    (Done /\ Detected("calculate_gst") /\ Detected("compare_rates")
          /\ "amounts" \in DOMAIN entities) =>
        /\ CallsTo("calculate_gst") =
               <<CalculateCall(entities["amounts"][1], entities["gst_rates"][1])>>
        /\ Len(CallsTo("compare_gst_rates")) = 1

\* the utterance has no explicit document or timeline phrasing
NoDocOrTimelinePhrasing ==
    ~ContainsAny(QueryLower, doc_signals) /\ ~ContainsAny(QueryLower, process_signals)

Test3Query == "calculate gst on 5000 at 12% and show breakdown"

\* Rule B's part of C9: when gst_breakdown and calculate_gst are both merged,
\* calculate_gst is kept exactly if the utterance has an explicit calculate
\* signal, and gst_breakdown is kept.
C9_RuleB ==
    (In("gst_breakdown", combined) /\ In("calculate_gst", combined)) =>
        /\ In("calculate_gst", resolved) <=> ContainsAny(QueryLower, calc_signals)
        /\ In("gst_breakdown", resolved)

C10_AtMostThreeDistinct ==
    Done => /\ Len(detected_intents) <= 3
            /\ NoDuplicates(detected_intents)

\* C10's case: more than 3 intents were merged from the classifier, the
\* triggers and the keywords, and the list was cut.
C10_Witness ==
    /\ Done
    /\ Len(resolved) > 3
    /\ Len(detected_intents) = 3

\* the intents _resolve_intent_conflicts has a rule to remove
Removable == {"company_documents", "company_process", "calculate_gst"}

\* the resolver's result on xs keeps the members of xs it keeps in their
\* order, drops removable intents only, and is a fixed point of the resolver
ResolverFrame(ql, xs) ==
    LET ys == ResolveIntentConflicts(ql, xs)
    IN  /\ ys = SelectSeq(xs, LAMBDA x : In(x, ys))
        /\ SetOf(xs) \ SetOf(ys) \subseteq Removable
        /\ ResolveIntentConflicts(ql, ys) = ys

\* the intents the rules read
RuleIntents ==
    {"company_guide", "company_documents", "company_process", "calculate_gst",
     "gst_breakdown"}

\* the lists of at most 3 different intents the rules read, in every order
TestLists ==
    {xs \in UNION {[1..n -> RuleIntents] : n \in 0..3} : NoDuplicates(xs)}

\* the resolver reads the utterance only: one state per utterance is enough
\* to try the lists on it
FirstVisit ==
    prev = <<>> /\ hashseed = 1 /\ \A i \in 1..Len(proba) : proba[i] = Low

\* C11: _resolve_intent_conflicts only removes: its output is its input
\* without some of company_documents, company_process and calculate_gst, the
\* rest in the same order, and resolving the output again changes nothing;
\* this for the merged list of every request and for every list of the
\* intents the rules read.
C11_ResolverOnlyRemoves ==
    Done => /\ resolved = ResolveIntentConflicts(QueryLower, combined)
            /\ ResolverFrame(QueryLower, combined)
            /\ FirstVisit => \A xs \in TestLists : ResolverFrame(QueryLower, xs)

\* C11's case: the resolver removed an intent from a merged list and kept at
\* least two others.
C11_Witness ==
    /\ Done
    /\ Len(resolved) < Len(combined)
    /\ Len(resolved) >= 2

\* C12: a process_query call made while the vectorizer or the classifier is
\* unset raises: it returns no result, produces no intents, entities or tool
\* calls, and leaves the estimators as they were.
C12_RaisesWithoutModel ==
    [][(pc = "ready" /\ pc' # "ready"
        /\ (vectorizer = "unset" \/ classifier = "unset"))
       => /\ pc' = "raised"
          /\ vectorizer' = vectorizer /\ classifier' = classifier
          /\ outputs' = outputs
          /\ outputs' = <<<<>>, <<>>, <<>>, <<>>, <<>>, <<>>, Empty, <<>>>>]_vars

\* C12's case: process_query was called and raised with the vectorizer set
\* and the classifier unset.
C12_Witness ==
    /\ pc = "raised"
    /\ vectorizer # "unset"
    /\ classifier = "unset"

\* C13: an intent bound to an identifier (validate_gstin to gstin,
\* redbus_booking and redbus_tracking to tin) that is detected without its
\* identifier among the entities plans no tool call, and process_query
\* returns all the same.
C13_SilentSkip ==
    Done => /\ (Detected("validate_gstin") /\ "gstin" \notin DOMAIN entities)
                => CallsTo("validate_gstin") = <<>>
            /\ (Detected("redbus_booking") /\ "tin" \notin DOMAIN entities)
                => CallsTo("redbus_booking_redirect") = <<>>
            /\ (Detected("redbus_tracking") /\ "tin" \notin DOMAIN entities)
                => CallsTo("redbus_tracking_redirect") = <<>>

\* C13's case: redbus_tracking is the one detected intent, no ticket id was
\* extracted and process_query returned an empty tool_calls list.
C13_Witness ==
    /\ Done
    /\ detected_intents = <<"redbus_tracking">>
    /\ "tin" \notin DOMAIN entities
    /\ tool_calls = <<>>

\* the parameters whose values are strings
StringParams ==
    {"source_city", "destination_city", "travel_date", "tin", "gstin",
     "redirect_to"}

\* C14 as claimed: every parameter of every planned tool call has a concrete
\* value, never None and never an empty placeholder.
C14_NoUnboundParameter ==
    Done => \A n \in 1..Len(tool_calls) :
                \A k \in DOMAIN tool_calls[n].parameters \cap StringParams :
                    tool_calls[n].parameters[k] \notin {None, ""}

\* the tools in the order the claim lists the planner's branches
BranchOrder ==
    <<"calculate_gst", "reverse_calculate_gst", "gst_breakdown",
      "compare_gst_rates", "validate_gstin", "get_company_onboarding_guide",
      "get_company_required_documents", "get_validation_formats",
      "get_onboarding_faq", "get_bank_onboarding_guide",
      "get_vendor_onboarding_guide", "redbus_search_redirect",
      "redbus_booking_redirect", "redbus_offers_redirect",
      "redbus_tracking_redirect", "get_popular_routes", "open_redbus">>

BranchOf(tool) == CHOOSE n \in 1..Len(BranchOrder) : BranchOrder[n] = tool

\* the orders the members of a duplicate-free list can be put in
OrdersOf(xs) ==
    {p \in [1..Len(xs) -> SetOf(xs)] : SetOf(p) = SetOf(xs)}

\* C15: tool_calls follows the planner's branch order, whatever the order of
\* the detected intents: planning any permutation of intents_detected gives
\* the same tool_calls, and no call precedes a call of an earlier branch.
C15_BranchOrder ==
    Done => /\ \A p \in OrdersOf(detected_intents) :
                   PlanToolCalls(QueryOf, p, entities) = tool_calls
            /\ \A m, n \in 1..Len(tool_calls) :
                   m < n => BranchOf(tool_calls[m].tool_name)
                            <= BranchOf(tool_calls[n].tool_name)

\* C15's case: two intents were detected in the order opposite to that of
\* their branches, and both planned a call.
C15_Witness ==
    /\ Done
    /\ \E m, n \in 1..Len(detected_intents) :
           /\ m < n
           /\ IntentIndex(detected_intents[m]) > IntentIndex(detected_intents[n])
           /\ CallsTo(Tool(detected_intents[m])) # <<>>
           /\ CallsTo(Tool(detected_intents[n])) # <<>>

\* the fixed panel of rates
Panel == <<F(5), F(12), F(18), F(28)>>

\* C16: with compare_rates detected and an amount extracted, a planned
\* compare_gst_rates call has as rates all the extracted rates, in utterance
\* order, when more than one was extracted, the panel 5, 12, 18, 28 when at
\* most one was, and as base_amount the first extracted amount; there is one
\* such call when that amount is not zero and never more than one.
C16_CompareRates ==
    (Done /\ Detected("compare_rates") /\ "amounts" \in DOMAIN entities) =>
        LET calls == CallsTo("compare_gst_rates")
            rates == entities["gst_rates"]
        IN  /\ \A n \in 1..Len(calls) :
                   /\ calls[n].parameters["rates"] =
                          IF Len(rates) > 1 THEN rates ELSE Panel
                   /\ calls[n].parameters["base_amount"] = entities["amounts"][1]
            /\ Len(calls) <= 1
            /\ Truthy(entities["amounts"][1]) => Len(calls) = 1

\* C16's case: compare_rates was detected on an utterance with more than one
\* rate and an amount, and a compare call with those rates was planned.
C16_Witness ==
    /\ Done
    /\ Detected("compare_rates")
    /\ Len(entities["gst_rates"]) > 1
    /\ Len(CallsTo("compare_gst_rates")) = 1
    /\ CallsTo("compare_gst_rates")[1].parameters["rates"] = entities["gst_rates"]

\* C17 as claimed: with reverse_gst detected, a reverse_calculate_gst call has
\* as total_amount the second extracted amount when there is one, whatever
\* its value, and else the first; without an amount there is no reverse call.
C17_ReverseTotal ==
    (Done /\ Detected("reverse_gst")) =>
        LET calls == CallsTo("reverse_calculate_gst")
        IN  IF "amounts" \notin DOMAIN entities THEN calls = <<>>
            ELSE \A n \in 1..Len(calls) :
                     calls[n].parameters["total_amount"] =
                         IF Len(entities["amounts"]) >= 2
                         THEN entities["amounts"][2]
                         ELSE entities["amounts"][1]

\* the utterance has a conjunction marker
HasMarker == ContainsAny(QueryLower, multi_indicators)

\* a trigger phrase, a keyword of the intent occurs in the utterance
TriggerHit(intent) == ContainsAny(QueryLower, TriggerChars[IntentIndex(intent)])
KeywordHit(intent) == ContainsAny(QueryLower, KeywordChars[IntentIndex(intent)])

\* C18: a trigger phrase adds its intent to the merged list only on an
\* utterance with a conjunction marker, a keyword adds its intent on every
\* utterance; so without a marker an intent with a trigger phrase but no
\* keyword in the utterance is not among the lexical matches.
C18_TriggersNeedMarker ==
    Done => /\ SetOf(keyword_matched) \subseteq SetOf(combined)
            /\ FirstVisit =>
                   LET marker == HasMarker
                   IN  \A i \in SetOf(IntentNames) :
                           LET trigger == marker /\ TriggerHit(i)
                           IN  /\ In(i, trigger_matched) <=> trigger
                               /\ In(i, keyword_matched) <=> (KeywordHit(i) \/ trigger)

\* C18's case: an utterance without a marker has a trigger phrase of an
\* intent and none of its keywords, and the intent is not a lexical match.
C18_Witness ==
    /\ Done
    /\ FirstVisit
    /\ ~HasMarker
    /\ \E i \in SetOf(IntentNames) :
           TriggerHit(i) /\ ~KeywordHit(i) /\ ~In(i, keyword_matched)

\* xs is the front of ys
IsPrefix(xs, ys) == Len(xs) <= Len(ys) /\ SubSeq(ys, 1, Len(xs)) = xs

\* C19 as claimed: the merged list is put in trigger-first order when two or
\* more intents were matched by trigger phrases, and only then: with fewer
\* trigger matches it is the plain union of the predictions and the matches,
\* however many intents the keywords matched.
C19_TriggerFirst ==
    Done => IF Len(trigger_matched) >= 2
            THEN IsPrefix(trigger_matched, combined)
            ELSE combined = ListOfSet(predicted \o keyword_matched, hashseed)

\* C19 as amended: the merged list is put in lexical-first order when two or
\* more intents were matched lexically, by trigger phrase or by keyword: the
\* trigger matches, then the keyword matches, then the remaining classifier
\* predictions; with fewer lexical matches it is the union of the predictions
\* and the matches, each once.
C19_LexicalFirst ==
    Done => /\ IsPrefix(trigger_matched, keyword_matched)
            /\ IF Len(keyword_matched) >= 2
               THEN combined = keyword_matched \o Without(predicted, keyword_matched)
               ELSE /\ SetOf(combined) = SetOf(predicted) \cup SetOf(keyword_matched)
                    /\ NoDuplicates(combined)

\* C19's case: an utterance without a marker, hence without trigger matches,
\* has two keyword matches, and the merged list has them in front of a
\* classifier prediction.
C19_Witness ==
    /\ Done
    /\ trigger_matched = <<>>
    /\ Len(keyword_matched) >= 2
    /\ Len(combined) > Len(keyword_matched)
    /\ IsPrefix(keyword_matched, combined)

\* the threshold the claim gives for the utterance, in hundredths
WordThreshold ==
    LET words == WordCount(QueryOf)
    IN  IF words <= 10 THEN 35 ELSE IF words <= 15 THEN 30 ELSE 25

\* the positions of the classes above the claim's threshold
Above ==
    LET threshold == WordThreshold
    IN  {i \in 1..Len(proba) : proba[i] > threshold}

\* C20: the classifier's decision is exactly the classes whose probability
\* is above 0.35 (at most 10 words), 0.30 (11 to 15 words) or 0.25 (more than
\* 15 words), and when there is none it is exactly one class, of the highest
\* probability.
C20_AdaptiveThreshold ==
    Done => LET above == Above
            IN
            IF above # {}
            THEN /\ SetOf(predicted) = {Classes[i] : i \in above}
                 /\ Len(predicted) = Cardinality(above)
            ELSE /\ Len(predicted) = 1
                 /\ \E i \in 1..Len(proba) :
                        /\ predicted[1] = Classes[i]
                        /\ \A j \in 1..Len(proba) : proba[j] <= proba[i]

\* C20's case: on an utterance of 16 words two classes are selected whose
\* probability is above 0.25 only.
C20_Witness ==
    /\ Done
    /\ WordCount(QueryOf) = 16
    /\ Len(predicted) = 2
    /\ \E i \in 1..Len(proba) : proba[i] = Faint /\ In(Classes[i], predicted)

-----------------------------------------------------------------------------
(* Entity extraction: percentages, identifiers, the locality flag *)

\* clean_query of extract_entities: lower case, the GSTIN taken out
CleanQuery ==
    LET q == QueryOf
    IN  IF GstinSearch(q) # 0 THEN GstinSub(Lower(q)) ELSE Lower(q)

\* entities["amounts"], empty when the key is absent
AmountsOf(e) == IF "amounts" \in DOMAIN e THEN e["amounts"] ELSE <<>>

RECURSIVE CutPercentTokensFrom(_, _)
\* s from i on without the percentage tokens: each token is cut where the
\* percentage pattern matched it, and nothing else is touched
CutPercentTokensFrom(s, i) ==
    IF i > Len(s) THEN <<>>
    ELSE LET r == PercentAt(s, i)
         IN  IF r[2] = 0 THEN <<s[i]>> \o CutPercentTokensFrom(s, i + 1)
             ELSE CutPercentTokensFrom(s, r[2])

CutPercentTokens(s) == CutPercentTokensFrom(s, 1)

\* C23: every percentage token is taken out of the text before amounts are
\* read, whole and without touching another token: the amounts are the
\* amounts of the text without its percentage tokens.
C23_RatesNeverAmounts ==
    Done /\ FirstVisit =>
        AmountsOf(entities) = AmountFloats(AmountFindall(CutPercentTokens(CleanQuery)))

\* clean_query without the ticket number and the travel date found in it
WithoutTicketAndDate ==
    LET tin == Get(entities, "tin")
        date == Get(entities, "travel_date")
        a == IF tin # <<>> THEN Remove(CleanQuery, Lower(Chars(tin[1])))
             ELSE CleanQuery
    IN  IF date # <<>> THEN Remove(a, Chars(date[1])) ELSE a

\* C24: the digits of a ticket number (TIN...) and of an ISO date are not
\* read as amounts: the amounts are those of the text without the ticket
\* number and the date.
C24_IdentifierDigitsNotAmounts ==
    Done /\ FirstVisit =>
        AmountsOf(entities) =
            AmountFloats(AmountFindall(
                RemovePercents(WithoutTicketAndDate, PercentFindall(CleanQuery))))

state == Chars("state")

\* the word m, alone or as the head of "<m>state", "<m>-state", "<m> state",
\* starts at i
MarkerAt(s, i, m) ==
    /\ StartsAt(s, i, m)
    /\ ~IsWord(At(s, i - 1))
    /\ \/ ~IsWord(At(s, i + Len(m)))
       \/ StartsAt(s, i + Len(m), state)

\* the utterance has an explicit marker m
ExplicitMarker(m) == \E i \in 1..Len(QueryLower) : MarkerAt(QueryLower, i, m)

\* C25: is_intra_state is set exactly on an explicit intra-state or
\* inter-state marker, to TRUE for intra and to FALSE for inter, and every
\* gst_breakdown call carries is_intra_state exactly when it is set.
C25_FlagOnlyOnExplicitMarker ==
    Done /\ FirstVisit =>
        /\ "is_intra_state" \in DOMAIN entities
               <=> (ExplicitMarker(inter) \/ ExplicitMarker(intra))
        /\ "is_intra_state" \in DOMAIN entities =>
               (entities["is_intra_state"] <=> ~ExplicitMarker(inter))
        /\ \A n \in 1..Len(tool_calls) :
               tool_calls[n].tool_name = "gst_breakdown" =>
                   /\ "is_intra_state" \in DOMAIN tool_calls[n].parameters
                          <=> "is_intra_state" \in DOMAIN entities
                   /\ "is_intra_state" \in DOMAIN entities =>
                          tool_calls[n].parameters["is_intra_state"]
                              = entities["is_intra_state"]

\* the percentages of the utterance, in its order
RatesInOrder ==
    LET pm == PercentFindall(CleanQuery)
    IN  [n \in 1..Len(pm) |-> ToFloat(pm[n])]

\* C26: extract_entities returns for every utterance: gst_rates is never
\* empty and gst_rate is its first element; gst_rates is the percentages in
\* utterance order when there is one, else [18.0]; amounts, when present, is
\* not empty and base_amount and amount are its first element.
C26_RatesAndAmountsShape ==
    Done /\ FirstVisit =>
        /\ {"gst_rates", "gst_rate"} \subseteq DOMAIN entities
        /\ entities["gst_rates"] # <<>>
        /\ entities["gst_rate"] = entities["gst_rates"][1]
        /\ entities["gst_rates"]
               = IF RatesInOrder # <<>> THEN RatesInOrder ELSE <<F(18)>>
        /\ "amounts" \in DOMAIN entities =>
               /\ entities["amounts"] # <<>>
               /\ {"base_amount", "amount"} \subseteq DOMAIN entities
               /\ entities["base_amount"] = entities["amounts"][1]
               /\ entities["amount"] = entities["amounts"][1]
        /\ {"base_amount", "amount"} \cap DOMAIN entities # {} =>
               "amounts" \in DOMAIN entities

\* an utterance with several percentages and an amount has been served
C26_Witness ==
    /\ Done /\ FirstVisit
    /\ query = "calculate gst on 5000 at 5% and 12% and 18%"
    /\ entities["gst_rates"] = <<F(5), F(12), F(18)>>
    /\ entities["base_amount"] = F(5000)

-----------------------------------------------------------------------------
(* The resolver's Rule B and the lexicon, against their documentation *)

\* C28: Rule B as its docstring states it: calculate_gst is dropped only
\* when gst_breakdown is present, the utterance contains "breakdown" or
\* "split", and it contains neither "calculate gst" nor "gst on".
C28_RuleBAsDocumented ==
    Done /\ In("calculate_gst", combined) /\ ~In("calculate_gst", resolved) =>
        /\ In("gst_breakdown", combined)
        /\ \/ Contains(QueryLower, Chars("breakdown"))
           \/ Contains(QueryLower, Chars("split"))
        /\ ~Contains(QueryLower, Chars("calculate gst"))
        /\ ~Contains(QueryLower, Chars("gst on"))

\* the intents the fix summary names, each with the single word that used to
\* trigger it
SingleWords == {<<"gst_breakdown", "breakdown">>, <<"compare_rates", "compare">>}

\* the utterance contains an entry of the intent's lexicon other than word
OtherEntryHit(intent, word) ==
    \E k \in (SetOf(Keywords(intent)) \cup SetOf(MultiTriggers(intent))) \ {word} :
        Contains(QueryLower, Chars(k))

\* C29: the single word "breakdown" or "compare" alone does not make
\* gst_breakdown or compare_rates a lexical match.
C29_SingleWordAddsNothing ==
    Done /\ FirstVisit =>
        \A p \in SingleWords :
            ~OtherEntryHit(p[1], p[2]) => ~In(p[1], keyword_matched)

\* C30: every lexicon entry matches in any letter case: an utterance that
\* contains a keyword of an intent, whatever the case of either, has the
\* intent as a lexical match, and so for a trigger phrase when the utterance
\* has a conjunction marker.
C30_EveryEntryMatchable ==
    Done /\ FirstVisit =>
        \A i \in SetOf(IntentNames) :
            /\ (\E k \in SetOf(Keywords(i)) : Contains(QueryLower, Lower(Chars(k))))
                   => In(i, keyword_matched)
            /\ (HasMarker /\ \E k \in SetOf(MultiTriggers(i)) :
                                 Contains(QueryLower, Lower(Chars(k))))
                   => In(i, trigger_matched)

-----------------------------------------------------------------------------
(* Concurrent requests *)

\* C21: under ConcurrentSpec, whatever the interleaving of the calls, a call
\* that has returned has returned what process_query returns for its
\* utterance when run alone on the same model, and no step of a call changes
\* the classifier object or the process's hash seed.
C21_CallsAreIsolated ==
    /\ [](\A t \in Callers :
             inflight[t].pc = "returned" =>
                 inflight[t].result =
                     <<Analysis(inflight[t].query,
                                ProbaOf(installed.classifier.from, inflight[t].query),
                                hashseed)>>)
    /\ [][UNCHANGED <<installed, hashseed>>]_vars

\* C21's case: a call has returned while a call on another utterance, with
\* another result, was entered before it returned and is still in progress.
C21_Witness ==
    /\ inflight[1].pc = "returned"
    /\ inflight[2].pc \in {"predicted", "extracted"}
    /\ inflight[1].query # inflight[2].query
    /\ inflight[1].result[1].intents_detected # frames[2].detected_intents
    /\ inflight[1].result[1].tool_calls # <<>>

\* C22: under ReloadSpec, a request that overlaps train() or load_model()
\* raises "model not loaded" or runs inference on a vectorizer, a classifier
\* and a label binarizer of one completed train() or load_model(): it never
\* fails on an unfitted or missing estimator, and the estimators it has used
\* come from the same one.
C22_NeverPartialModel ==
    \A t \in Overlapping :
        /\ inflight[t].pc # "failed"
        /\ inflight[t].pc \in {"scored", "returned"} =>
               inflight[t].used.classifier = inflight[t].used.vectorizer
        /\ inflight[t].pc = "returned" =>
               inflight[t].used.mlb = inflight[t].used.vectorizer

-----------------------------------------------------------------------------
(* The executor *)

\* C27: under ServiceSpec, the planned calls are executed one at a time in
\* the order of the list: at every moment mcp_results has one entry per call
\* handled so far, entry n for planned call n with its tool and parameters,
\* with success False exactly for a call that failed (no client, an error
\* result or an exception); and when the service returns there is an entry
\* for every planned call, whatever failed before it.
C27_OneEntryPerCallInOrder ==
    service.pc \in {"executing", "returned"} =>
        /\ Len(mcp_results) = Len(service.outcomes)
        /\ Len(mcp_results) <= Len(service.tool_calls_specs)
        /\ service.pc = "executing" => Len(mcp_results) = service.idx - 1
        /\ service.pc = "returned" =>
               Len(mcp_results) = Len(service.tool_calls_specs)
        /\ \A n \in 1..Len(mcp_results) :
               /\ mcp_results[n].tool = service.tool_calls_specs[n].tool_name
               /\ mcp_results[n].input = service.tool_calls_specs[n].parameters
               /\ mcp_results[n].success <=> service.outcomes[n] = "success"

\* C27's case: the service has returned after three planned calls of which
\* the first failed and a later one succeeded.
C27_Witness ==
    /\ service.pc = "returned"
    /\ Len(service.tool_calls_specs) = 3
    /\ service.outcomes[1] # "success"
    /\ service.outcomes[3] = "success"
    /\ mcp_results[3].success

=============================================================================
